---- MODULE Spec2Model ----
(***************************************************************************)
(* Model of serializer/universal/container.go: GetContainers and the       *)
(* conversions it calls (volume mounts, env sources, probes, console       *)
(* hints).  The container loop of GetContainers is the state machine; the  *)
(* conversions are operators computed the way the code computes them.      *)
(*                                                                         *)
(* Go values:                                                              *)
(*   pointer            Nil (<<>>) or Ptr(v) (<<v>>)                       *)
(*   slice, nil matters record [isNil, elems] (NilSlice, MakeSlice)        *)
(*   slice, only ranged a sequence                                         *)
(*   a function that logs through glog returns [ret, glog]                 *)
(***************************************************************************)
EXTENDS Integers, Sequences, FiniteSets

VARIABLES pod, containers, volumes, ret, idx, pc, logs

vars == <<pod, containers, volumes, ret, idx, pc, logs>>

-----------------------------------------------------------------------------
(* Go values *)

Nil == <<>>

Ptr(v) == <<v>>

Deref(p) == p[1]

NilSlice == [isNil |-> TRUE, elems |-> <<>>]

MakeSlice(s) == [isNil |-> FALSE, elems |-> s]

len(s) == Len(s.elems)

append(s, x) == [isNil |-> FALSE, elems |-> Append(s.elems, x)]

convertBoolToPointer(b) == Ptr(b)

-----------------------------------------------------------------------------
(* convertVolumeMounts *)

\* vmap after the first n volumes have been written, in list order
RECURSIVE vmapUpTo(_, _)
vmapUpTo(vols, n) ==
    IF n = 0 THEN [x \in {} |-> Nil]
    ELSE LET prev == vmapUpTo(vols, n - 1)
             name == vols[n].Name
         IN  [x \in (DOMAIN prev) \cup {name} |->
                 IF x = name THEN vols[n] ELSE prev[x]]

vmap_firstWins(vols) ==
    [x \in {vols[j].Name : j \in 1..Len(vols)} |->
        vols[CHOOSE j \in 1..Len(vols) :
                /\ vols[j].Name = x
                /\ \A k \in 1..Len(vols) : vols[k].Name = x => j <= k]]

vmap(vols) == vmapUpTo(vols, Len(vols))

RECURSIVE mountsLoop(_, _, _)
mountsLoop(vmounts, m, n) ==
    IF n = 0 THEN <<>>
    ELSE LET acc    == mountsLoop(vmounts, m, n - 1)
             vmount == vmounts[n]
         IN  IF vmount.Name \in DOMAIN m
             THEN Append(acc, [Name        |-> vmount.Name,
                               ReadOnly    |-> vmount.ReadOnly,
                               MountPath   |-> vmount.MountPath,
                               SubPath     |-> vmount.SubPath,
                               ConsoleKind |-> m[vmount.Name].ConsoleKind])
             ELSE acc

convertVolumeMounts_keepUnmatched(vmounts, vols) ==
    [n \in 1..Len(vmounts) |->
        [Name        |-> vmounts[n].Name,
         ReadOnly    |-> vmounts[n].ReadOnly,
         MountPath   |-> vmounts[n].MountPath,
         SubPath     |-> vmounts[n].SubPath,
         ConsoleKind |-> IF vmounts[n].Name \in DOMAIN vmap(vols)
                         THEN vmap(vols)[vmounts[n].Name].ConsoleKind
                         ELSE ""]]

convertVolumeMounts(vmounts, vols) ==
    mountsLoop(vmounts, vmap(vols), Len(vmounts))

-----------------------------------------------------------------------------
(* convertEnvFrom *)

RECURSIVE envFromLoop(_, _)
envFromLoop(envFrom, n) ==
    IF n = 0 THEN MakeSlice(<<>>)
    ELSE LET acc == envFromLoop(envFrom, n - 1)
             v   == envFrom[n]
         IN  IF v.ConfigMapRef # Nil
             THEN append(acc, [Type |-> "Config", Name |-> Deref(v.ConfigMapRef).Name])
             ELSE IF v.SecretRef # Nil
             THEN append(acc, [Type |-> "Secret", Name |-> Deref(v.SecretRef).Name])
             ELSE acc

RECURSIVE envFromLoop_secretFirst(_, _)
envFromLoop_secretFirst(envFrom, n) ==
    IF n = 0 THEN MakeSlice(<<>>)
    ELSE LET acc == envFromLoop_secretFirst(envFrom, n - 1)
             v   == envFrom[n]
         IN  IF v.SecretRef # Nil
             THEN append(acc, [Type |-> "Secret", Name |-> Deref(v.SecretRef).Name])
             ELSE IF v.ConfigMapRef # Nil
             THEN append(acc, [Type |-> "Config", Name |-> Deref(v.ConfigMapRef).Name])
             ELSE acc

convertEnvFrom_secretFirst(envFrom) ==
    IF len(envFrom) = 0 THEN NilSlice
    ELSE envFromLoop_secretFirst(envFrom.elems, len(envFrom))

convertEnvFrom_noEarlyReturn(envFrom) ==
    envFromLoop(envFrom.elems, len(envFrom))

convertEnvFrom(envFrom) ==
    IF len(envFrom) = 0 THEN NilSlice
    ELSE envFromLoop(envFrom.elems, len(envFrom))

-----------------------------------------------------------------------------
(* convertContainerProbe, convertProbe, convertHandler *)

convertHandler_httpFirst(handler) ==
    IF handler.HTTPGet # Nil
    THEN [ret  |-> [Type   |-> "HTTP",
                    Method |-> Ptr([Path        |-> Deref(handler.HTTPGet).Path,
                                    Port        |-> Deref(handler.HTTPGet).Port,
                                    Host        |-> Deref(handler.HTTPGet).Host,
                                    Scheme      |-> Deref(handler.HTTPGet).Scheme,
                                    HTTPHeaders |-> Deref(handler.HTTPGet).HTTPHeaders])],
          glog |-> <<>>]
    ELSE IF handler.Exec # Nil
    THEN [ret  |-> [Type |-> "EXEC", Method |-> handler.Exec], glog |-> <<>>]
    ELSE IF handler.TCPSocket # Nil
    THEN [ret  |-> [Type |-> "TCP", Method |-> handler.TCPSocket], glog |-> <<>>]
    ELSE [ret  |-> [Type |-> "", Method |-> Nil],
          glog |-> <<[severity |-> "ERROR", format |-> "unsuport handler: %s",
                      arg |-> handler]>>]

convertHandler_logAlways(handler) ==
    [ret  |-> IF handler.Exec # Nil
              THEN [Type |-> "EXEC", Method |-> handler.Exec]
              ELSE IF handler.HTTPGet # Nil
              THEN [Type |-> "HTTP", Method |-> handler.HTTPGet]
              ELSE IF handler.TCPSocket # Nil
              THEN [Type |-> "TCP", Method |-> handler.TCPSocket]
              ELSE [Type |-> "", Method |-> Nil],
     glog |-> <<[severity |-> "ERROR", format |-> "unsuport handler: %s",
                 arg |-> handler]>>]

convertHandler(handler) ==
    IF handler.Exec # Nil
    THEN [ret  |-> [Type |-> "EXEC", Method |-> handler.Exec], glog |-> <<>>]
    ELSE IF handler.HTTPGet # Nil
    THEN [ret  |-> [Type   |-> "HTTP",
                    Method |-> Ptr([Path        |-> Deref(handler.HTTPGet).Path,
                                    Port        |-> Deref(handler.HTTPGet).Port,
                                    Host        |-> Deref(handler.HTTPGet).Host,
                                    Scheme      |-> Deref(handler.HTTPGet).Scheme,
                                    HTTPHeaders |-> Deref(handler.HTTPGet).HTTPHeaders])],
          glog |-> <<>>]
    ELSE IF handler.TCPSocket # Nil
    THEN [ret  |-> [Type |-> "TCP", Method |-> handler.TCPSocket], glog |-> <<>>]
    ELSE [ret  |-> [Type |-> "", Method |-> Nil],
          glog |-> <<[severity |-> "ERROR", format |-> "unsuport handler: %s",
                      arg |-> handler]>>]

\* probe is a non-nil *corev1.Probe; the result is a non-nil *Probe
convertProbe(probe) ==
    LET h == convertHandler(Deref(probe).Handler)
    IN  [ret  |-> Ptr([Handler             |-> h.ret,
                       InitialDelaySeconds |-> Deref(probe).InitialDelaySeconds,
                       TimeoutSeconds      |-> Deref(probe).TimeoutSeconds,
                       PeriodSeconds       |-> Deref(probe).PeriodSeconds,
                       Threshold           |->
                           Ptr([SuccessThreshold |-> Deref(probe).SuccessThreshold,
                                FailureThreshold |-> Deref(probe).FailureThreshold])]),
         glog |-> h.glog]

convertContainerProbe_swapped(liveness, readiness) ==
    LET l == IF readiness # Nil THEN convertProbe(readiness)
             ELSE [ret |-> Nil, glog |-> <<>>]
        r == IF liveness # Nil THEN convertProbe(liveness)
             ELSE [ret |-> Nil, glog |-> <<>>]
    IN  [ret  |-> Ptr([Liveness |-> l.ret, Readiness |-> r.ret]),
         glog |-> r.glog \o l.glog]

convertContainerProbe(liveness, readiness) ==
    LET l == IF liveness # Nil THEN convertProbe(liveness)
             ELSE [ret |-> Nil, glog |-> <<>>]
        r == IF readiness # Nil THEN convertProbe(readiness)
             ELSE [ret |-> Nil, glog |-> <<>>]
    IN  [ret  |-> Ptr([Liveness |-> l.ret, Readiness |-> r.ret]),
         glog |-> l.glog \o r.glog]

-----------------------------------------------------------------------------
(* console hints; c is a *corev1.Container *)

getConsoleIsEnvCustom(c) ==
    convertBoolToPointer(~Deref(c).Env.isNil /\ len(Deref(c).Env) # 0)

getConsoleIsEnvFrom(c) ==
    convertBoolToPointer(~Deref(c).EnvFrom.isNil /\ len(Deref(c).EnvFrom) # 0)

getConsoleIsCommand(c) ==
    convertBoolToPointer(~Deref(c).Command.isNil /\ len(Deref(c).Command) # 0)

logAnnotationKey == "logging.caicloud.io/required-logfiles"

getConsoleIsLog_firstOnly(p) ==
    convertBoolToPointer(/\ Len(p.Annotations) > 0
                         /\ p.Annotations[1].Key = logAnnotationKey)

getConsoleIsLog(p) ==
    convertBoolToPointer(\E a \in 1..Len(p.Annotations) :
                             p.Annotations[a].Key = logAnnotationKey)

getConsoleIsMountFile_anyMount(vmounts) ==
    convertBoolToPointer(Len(vmounts) > 0)

getConsoleIsMountFile(vmounts) ==
    convertBoolToPointer(\E n \in 1..Len(vmounts) : vmounts[n].ConsoleKind # "")

getConsoleLiveness(c) ==
    IF c = Nil THEN convertBoolToPointer(FALSE)
    ELSE IF Deref(c).LivenessProbe = Nil THEN convertBoolToPointer(FALSE)
    ELSE convertBoolToPointer(TRUE)

getConsoleReadiness(c) ==
    IF c = Nil THEN convertBoolToPointer(FALSE)
    ELSE IF Deref(c).ReadinessProbe = Nil THEN convertBoolToPointer(FALSE)
    ELSE convertBoolToPointer(TRUE)

-----------------------------------------------------------------------------
(* GetContainers *)

\* the Container literal built in one pass of the loop, with what the pass logs
con(p, c, vols) ==
    LET vmounts == convertVolumeMounts(c.VolumeMounts, vols)
        probe   == convertContainerProbe(c.LivenessProbe, c.ReadinessProbe)
    IN  [ret  |-> Ptr([Name               |-> c.Name,
                       Image              |-> c.Image,
                       ImagePullPolicy    |-> c.ImagePullPolicy,
                       TTY                |-> c.TTY,
                       Command            |-> c.Command,
                       Args               |-> c.Args,
                       WorkingDir         |-> c.WorkingDir,
                       SecurityContext    |-> c.SecurityContext,
                       Ports              |-> c.Ports,
                       EnvFrom            |-> convertEnvFrom(c.EnvFrom),
                       Env                |-> c.Env,
                       Resources          |-> c.Resources,
                       Mounts             |-> vmounts,
                       Probe              |-> probe.ret,
                       Lifecycle          |-> c.Lifecycle,
                       ConsoleIsEnvCustom |-> getConsoleIsEnvCustom(Ptr(c)),
                       ConsoleIsEnvFrom   |-> getConsoleIsEnvFrom(Ptr(c)),
                       ConsoleIsCommand   |-> getConsoleIsCommand(Ptr(c)),
                       ConsoleIsMountFile |-> getConsoleIsMountFile(vmounts),
                       ConsoleIsLog       |-> getConsoleIsLog(p),
                       ConsoleLiveness    |-> getConsoleLiveness(Ptr(c)),
                       ConsoleReadiness   |-> getConsoleReadiness(Ptr(c))]),
         glog |-> probe.glog]

\* ret := make([]*Container, 0, len(containers))
GetContainersEnter ==
    /\ pc = "start"
    /\ ret' = MakeSlice(<<>>)
    /\ idx' = 0
    /\ pc' = "loop"
    /\ UNCHANGED <<pod, containers, volumes, logs>>

LoopBody_prepend ==
    /\ pc = "loop"
    /\ idx < Len(containers)
    /\ LET r == con(pod, containers[idx + 1], volumes)
       IN  /\ ret' = [isNil |-> FALSE, elems |-> <<r.ret>> \o ret.elems]
           /\ logs' = logs \o r.glog
    /\ idx' = idx + 1
    /\ UNCHANGED <<pod, containers, volumes, pc>>

\* one pass of `for _, c := range containers`
LoopBody ==
    /\ pc = "loop"
    /\ idx < Len(containers)
    /\ LET r == con(pod, containers[idx + 1], volumes)
       IN  /\ ret' = append(ret, r.ret)
           /\ logs' = logs \o r.glog
    /\ idx' = idx + 1
    /\ UNCHANGED <<pod, containers, volumes, pc>>

\* return ret
GetContainersReturn ==
    /\ pc = "loop"
    /\ idx = Len(containers)
    /\ pc' = "done"
    /\ UNCHANGED <<pod, containers, volumes, ret, idx, logs>>

Next ==
    \/ GetContainersEnter
    \/ LoopBody
    \/ GetContainersReturn

-----------------------------------------------------------------------------
(* Inputs *)

MaxContainers == 2

MaxAnnotations == 2

MaxVolumes == 2

MaxMounts == 2

MaxEnvFrom == 2

SeqsUpTo(S, n) == UNION {[1..k -> S] : k \in 0..n}

ZeroContainer ==
    [Name |-> "", Image |-> "", ImagePullPolicy |-> "", TTY |-> FALSE,
     Command |-> NilSlice, Args |-> NilSlice, WorkingDir |-> "",
     SecurityContext |-> Nil, Ports |-> NilSlice, Env |-> NilSlice,
     EnvFrom |-> NilSlice, Resources |-> [Limits |-> Nil, Requests |-> Nil],
     VolumeMounts |-> <<>>, LivenessProbe |-> Nil, ReadinessProbe |-> Nil,
     Lifecycle |-> Nil]

Mount(name, ro, path, sub) ==
    [Name |-> name, ReadOnly |-> ro, MountPath |-> path, SubPath |-> sub]

MountSet ==
    {Mount("data", FALSE, "/data", ""),
     Mount("data", TRUE, "/data/ro", "sub"),
     Mount("conf", TRUE, "/etc/conf", "app.yaml"),
     Mount("ghost", FALSE, "/ghost", "")}

VolumeSet ==
    {[Name |-> "data", ConsoleKind |-> "PVC"],
     [Name |-> "data", ConsoleKind |-> ""],
     [Name |-> "conf", ConsoleKind |-> "Config"]}

EnvFromSet ==
    {[Prefix |-> "", ConfigMapRef |-> cm, SecretRef |-> sec] :
        cm \in {Nil, Ptr([Name |-> "app-config"]), Ptr([Name |-> "shared"])},
        sec \in {Nil, Ptr([Name |-> "db-secret"]), Ptr([Name |-> "shared"])}}

\* intstr.IntOrString
IntPort(n) == [Type |-> "Int", IntVal |-> n, StrVal |-> ""]

StrPort(str) == [Type |-> "String", IntVal |-> 0, StrVal |-> str]

ExecAction == Ptr([Command |-> <<"cat", "/tmp/healthy">>])

HTTPGetActions ==
    {Ptr([Path |-> "/healthz", Port |-> IntPort(8080), Host |-> "", Scheme |-> "HTTP",
          HTTPHeaders |-> <<>>]),
     Ptr([Path |-> "/ready", Port |-> StrPort("web"), Host |-> "example.org",
          Scheme |-> "HTTPS",
          HTTPHeaders |-> <<[Name |-> "X-Probe", Value |-> "1"]>>])}

TCPSocketAction == Ptr([Port |-> IntPort(3306), Host |-> "db.local"])

HandlerSet ==
    [Exec : {Nil, ExecAction}, HTTPGet : {Nil} \cup HTTPGetActions,
     TCPSocket : {Nil, TCPSocketAction}]

NoHandler == [Exec |-> Nil, HTTPGet |-> Nil, TCPSocket |-> Nil]

Probe(handler, delay, timeout, period, success, failure) ==
    Ptr([Handler |-> handler, InitialDelaySeconds |-> delay,
         TimeoutSeconds |-> timeout, PeriodSeconds |-> period,
         SuccessThreshold |-> success, FailureThreshold |-> failure])

ProbeSet ==
    {Probe(h, 5, 1, 10, 2, 3) : h \in HandlerSet}
        \cup {Probe(h, 0, 30, 60, 1, 7) :
                 h \in {NoHandler, [NoHandler EXCEPT !.Exec = ExecAction]}}

AnnotationSet ==
    {[Key |-> "logging.caicloud.io/required-logfiles", Value |-> "/var/log/app.log"],
     [Key |-> "logging.caicloud.io/required-logfiles", Value |-> ""],
     [Key |-> "logging.caicloud.io/required-logfile", Value |-> "/var/log/app.log"],
     [Key |-> "owner", Value |-> "logging.caicloud.io/required-logfiles"]}

WebContainer ==
    [Name |-> "web", Image |-> "nginx:1.25", ImagePullPolicy |-> "Always",
     TTY |-> TRUE, Command |-> MakeSlice(<<>>),
     Args |-> MakeSlice(<<"-g", "daemon off;">>), WorkingDir |-> "/srv",
     SecurityContext |-> Ptr([Privileged |-> TRUE]),
     Ports |-> MakeSlice(<<[Name |-> "http", ContainerPort |-> 80]>>),
     Env |-> MakeSlice(<<[Name |-> "A", Value |-> "1"]>>),
     EnvFrom |-> MakeSlice(<<>>),
     Resources |-> [Limits |-> Ptr([cpu |-> "500m"]), Requests |-> Nil],
     VolumeMounts |-> <<Mount("data", FALSE, "/data", "")>>,
     LivenessProbe |->
         Probe([NoHandler EXCEPT !.HTTPGet =
                    Ptr([Path |-> "/healthz", Port |-> IntPort(8080), Host |-> "",
                         Scheme |-> "HTTP", HTTPHeaders |-> <<>>])],
               5, 1, 10, 2, 3),
     ReadinessProbe |-> Nil,
     Lifecycle |-> Ptr([PostStart |-> Nil, PreStop |-> ExecAction])]

DbContainer ==
    [Name |-> "db", Image |-> "mysql:8", ImagePullPolicy |-> "IfNotPresent",
     TTY |-> FALSE, Command |-> MakeSlice(<<"mysqld">>), Args |-> NilSlice,
     WorkingDir |-> "", SecurityContext |-> Nil, Ports |-> NilSlice,
     Env |-> MakeSlice(<<>>),
     EnvFrom |-> MakeSlice(<<[Prefix |-> "", ConfigMapRef |-> Ptr([Name |-> "shared"]),
                              SecretRef |-> Nil],
                             [Prefix |-> "", ConfigMapRef |-> Nil,
                              SecretRef |-> Ptr([Name |-> "db-secret"])]>>),
     Resources |-> [Limits |-> Nil, Requests |-> Ptr([memory |-> "1Gi"])],
     VolumeMounts |-> <<Mount("ghost", FALSE, "/ghost", ""),
                        Mount("conf", TRUE, "/etc/conf", "app.yaml")>>,
     LivenessProbe |-> Probe([NoHandler EXCEPT !.Exec = ExecAction], 0, 30, 60, 1, 7),
     ReadinessProbe |-> Probe(NoHandler, 5, 1, 10, 2, 3),
     Lifecycle |-> Nil]

SidecarContainer ==
    [ZeroContainer EXCEPT
        !.Name = "web", !.Image = "envoy:1",
        !.ReadinessProbe =
            Probe([NoHandler EXCEPT !.TCPSocket = TCPSocketAction], 5, 1, 10, 2, 3)]

ContainerSet == {WebContainer, DbContainer, SidecarContainer, ZeroContainer}

PodSet == {[Annotations |-> a] : a \in SeqsUpTo(AnnotationSet, MaxAnnotations)}

-----------------------------------------------------------------------------
(* Specifications: the same GetContainers, called on different inputs *)

InitCall ==
    /\ ret = NilSlice
    /\ idx = 0
    /\ pc = "start"
    /\ logs = <<>>

\* whole container lists, under every annotation list
Init ==
    /\ pod \in PodSet
    /\ containers \in SeqsUpTo(ContainerSet, MaxContainers)
    /\ volumes \in {<<>>, <<[Name |-> "data", ConsoleKind |-> "PVC"],
                            [Name |-> "conf", ConsoleKind |-> ""]>>}
    /\ InitCall

Spec == Init /\ [][Next]_vars

\* mount lists against volume lists (duplicate volume names included)
InitMounts ==
    /\ pod = [Annotations |-> <<>>]
    /\ volumes \in SeqsUpTo(VolumeSet, MaxVolumes)
    /\ \E first \in SeqsUpTo(MountSet, MaxMounts),
          rest \in {<<>>} \cup {<<<<>>>>} \cup {<<<<m>>>> : m \in MountSet} :
          containers =
              <<[ZeroContainer EXCEPT !.Name = "a", !.VolumeMounts = first]>>
                  \o [k \in 1..Len(rest) |->
                         [ZeroContainer EXCEPT !.Name = "b", !.VolumeMounts = rest[k]]]
    /\ InitCall

SpecMounts == InitMounts /\ [][Next]_vars

\* environment-source lists, nil and empty included
InitEnvFrom ==
    /\ pod = [Annotations |-> <<>>]
    /\ volumes = <<>>
    /\ \E first \in {NilSlice} \cup {MakeSlice(s) : s \in SeqsUpTo(EnvFromSet, MaxEnvFrom)},
          rest \in {<<>>} \cup {<<NilSlice>>, <<MakeSlice(<<>>)>>}
                       \cup {<<MakeSlice(<<e>>)>> : e \in EnvFromSet} :
          containers =
              <<[ZeroContainer EXCEPT !.Name = "a", !.EnvFrom = first]>>
                  \o [k \in 1..Len(rest) |->
                         [ZeroContainer EXCEPT !.Name = "b", !.EnvFrom = rest[k]]]
    /\ InitCall

SpecEnvFrom == InitEnvFrom /\ [][Next]_vars

\* liveness and readiness probes with every combination of handler variants
InitProbes ==
    /\ pod = [Annotations |-> <<>>]
    /\ volumes = <<>>
    /\ \E l1 \in {Nil} \cup ProbeSet, r1 \in {Nil} \cup ProbeSet,
          rest \in {<<>>} \cup
                   {<<<<l2, r2>>>> :
                       l2 \in {Nil, Probe(NoHandler, 5, 1, 10, 2, 3),
                               Probe([NoHandler EXCEPT !.TCPSocket = TCPSocketAction],
                                     5, 1, 10, 2, 3)},
                       r2 \in {Nil, Probe(NoHandler, 0, 30, 60, 1, 7),
                               Probe([NoHandler EXCEPT !.Exec = ExecAction],
                                     5, 1, 10, 2, 3)}} :
          containers =
              <<[ZeroContainer EXCEPT !.Name = "a", !.LivenessProbe = l1,
                                      !.ReadinessProbe = r1]>>
                  \o [k \in 1..Len(rest) |->
                         [ZeroContainer EXCEPT !.Name = "b",
                                               !.LivenessProbe = rest[k][1],
                                               !.ReadinessProbe = rest[k][2]]]
    /\ InitCall

SpecProbes == InitProbes /\ [][Next]_vars

-----------------------------------------------------------------------------
(* Properties *)

\* the i-th output container and the raw container at the same position
Out(i) == Deref(ret.elems[i])

Done == 1..Len(ret.elems)

\* position in a filtered list of the entry kept from raw position k
Rank(K, k) == Cardinality({m \in K : m <= k})

UniqueNames(vols) ==
    \A j, k \in 1..Len(vols) : vols[j].Name = vols[k].Name => j = k

Matched(raw) ==
    {k \in 1..Len(raw) : \E j \in 1..Len(volumes) : volumes[j].Name = raw[k].Name}

LastNamed(name) ==
    CHOOSE j \in 1..Len(volumes) :
        /\ volumes[j].Name = name
        /\ \A k \in 1..Len(volumes) : volumes[k].Name = name => k <= j

\* C1: with unique volume names, the resolved mounts of a container are
\* exactly its raw mounts whose name is the name of some volume, in input
\* order, each with its own name, read-only flag, path and sub-path and the
\* kind of the volume of that name; unmatched mounts are absent, so the
\* length is the raw length minus the number of unmatched mounts, and
\* nothing is logged.
Thm_C1 ==
    UniqueNames(volumes) =>
        \A i \in Done :
            LET raw == containers[i].VolumeMounts
                out == Out(i).Mounts
                M   == Matched(raw)
            IN  /\ Len(out) = Len(raw) - Cardinality((1..Len(raw)) \ M)
                /\ \A k \in M :
                      /\ Rank(M, k) \in 1..Len(out)
                      /\ out[Rank(M, k)].Name = raw[k].Name
                      /\ out[Rank(M, k)].ReadOnly = raw[k].ReadOnly
                      /\ out[Rank(M, k)].MountPath = raw[k].MountPath
                      /\ out[Rank(M, k)].SubPath = raw[k].SubPath
                      /\ \E j \in 1..Len(volumes) :
                            /\ volumes[j].Name = raw[k].Name
                            /\ out[Rank(M, k)].ConsoleKind = volumes[j].ConsoleKind
                /\ logs = <<>>

\* a mount of `ghost` between volumes that exist: one entry fewer than raw
Wit_C1 ==
    /\ pc = "done"
    /\ UniqueNames(volumes)
    /\ Len(volumes) = 2
    /\ \E i \in Done :
          /\ Len(containers[i].VolumeMounts) = 2
          /\ containers[i].VolumeMounts[1].Name = "ghost"
          /\ containers[i].VolumeMounts[2].Name = "conf"
          /\ Len(Out(i).Mounts) = 1
          /\ Out(i).Mounts[1].ConsoleKind = "Config"

\* C9: when several volumes share a name, every resolved mount of that name
\* carries the kind of the last volume of that name in list order, and each
\* raw mount is emitted once, not once per duplicate.
Thm_C9 ==
    \A i \in Done :
        LET raw == containers[i].VolumeMounts
            out == Out(i).Mounts
            M   == Matched(raw)
        IN  /\ Len(out) = Cardinality(M)
            /\ \A k \in M :
                  /\ Rank(M, k) \in 1..Len(out)
                  /\ out[Rank(M, k)].Name = raw[k].Name
                  /\ out[Rank(M, k)].ConsoleKind =
                         volumes[LastNamed(raw[k].Name)].ConsoleKind

\* two volumes named `data` of different kinds, and a mount of `data`
Wit_C9 ==
    /\ pc = "done"
    /\ Len(volumes) = 2
    /\ volumes[1].Name = volumes[2].Name
    /\ volumes[1].ConsoleKind = "PVC"
    /\ volumes[2].ConsoleKind = ""
    /\ \E i \in Done :
          /\ Len(containers[i].VolumeMounts) = 1
          /\ containers[i].VolumeMounts[1].Name = "data"
          /\ Len(Out(i).Mounts) = 1
          /\ Out(i).Mounts[1].ConsoleKind = ""

\* C10 as stated: isMountFile of a container is true iff one of its raw
\* mounts has the name of a volume in the list whose kind is non-empty.
Orig_C10 ==
    \A i \in Done :
        Deref(Out(i).ConsoleIsMountFile) =
            (\E k \in 1..Len(containers[i].VolumeMounts) :
                \E j \in 1..Len(volumes) :
                    /\ volumes[j].Name = containers[i].VolumeMounts[k].Name
                    /\ volumes[j].ConsoleKind # "")

\* C10 amended: isMountFile of a container is computed from the resolved
\* mounts of that container: it is true iff one of them has a non-empty
\* kind, that is iff one of the container's raw mounts has the name of a
\* volume in the list and the last volume of that name has a non-empty
\* kind; it is false without mounts, when every mount names an absent
\* volume, and when every such kind is empty.
Thm_C10 ==
    \A i \in Done :
        LET raw == containers[i].VolumeMounts
            hint == Deref(Out(i).ConsoleIsMountFile)
        IN  /\ Out(i).ConsoleIsMountFile # Nil
            /\ hint = (\E n \in 1..Len(Out(i).Mounts) :
                          Out(i).Mounts[n].ConsoleKind # "")
            /\ hint = (\E k \in Matched(raw) :
                          volumes[LastNamed(raw[k].Name)].ConsoleKind # "")
            /\ (Matched(raw) = {} => ~hint)

\* the first container mounts a volume with a kind, the second only `ghost`
Wit_C10 ==
    /\ pc = "done"
    /\ Len(ret.elems) = 2
    /\ Deref(Out(1).ConsoleIsMountFile)
    /\ ~Deref(Out(2).ConsoleIsMountFile)
    /\ Len(containers[2].VolumeMounts) = 1
    /\ containers[2].VolumeMounts[1].Name = "ghost"

Populated(envFrom) ==
    {k \in 1..Len(envFrom) :
        envFrom[k].ConfigMapRef # Nil \/ envFrom[k].SecretRef # Nil}

\* C2: the flattened env sources of a container are its env-source entries
\* filtered and mapped in order: config set gives (Config, config name)
\* whether or not secret is set, only secret set gives (Secret, secret
\* name), neither set is skipped; so the output is no longer than the input.
Thm_C2 ==
    \A i \in Done :
        LET raw == containers[i].EnvFrom.elems
            out == Out(i).EnvFrom.elems
            K   == Populated(raw)
        IN  /\ Len(out) = Cardinality(K)
            /\ Len(out) <= Len(raw)
            /\ \A k \in K :
                  /\ Rank(K, k) \in 1..Len(out)
                  /\ raw[k].ConfigMapRef # Nil =>
                        out[Rank(K, k)] =
                            [Type |-> "Config", Name |-> raw[k].ConfigMapRef[1].Name]
                  /\ raw[k].ConfigMapRef = Nil =>
                        out[Rank(K, k)] =
                            [Type |-> "Secret", Name |-> raw[k].SecretRef[1].Name]

\* an entry with neither variant before an entry with both
Wit_C2 ==
    /\ pc = "done"
    /\ \E i \in Done :
          /\ len(containers[i].EnvFrom) = 2
          /\ containers[i].EnvFrom.elems[1].ConfigMapRef = Nil
          /\ containers[i].EnvFrom.elems[1].SecretRef = Nil
          /\ containers[i].EnvFrom.elems[2].ConfigMapRef # Nil
          /\ containers[i].EnvFrom.elems[2].SecretRef # Nil
          /\ len(Out(i).EnvFrom) = 1
          /\ Out(i).EnvFrom.elems[1].Type = "Config"

\* C3 as stated: a nil or empty env-source list gives an empty non-nil
\* list, so the env-source list of every output container is non-nil.
Orig_C3 ==
    \A i \in Done :
        /\ ~Out(i).EnvFrom.isNil
        /\ len(containers[i].EnvFrom) = 0 => len(Out(i).EnvFrom) = 0

\* C3 amended: a nil or empty env-source list gives a nil list; a list
\* with at least one entry gives a non-nil list, empty when every entry
\* is skipped.
Thm_C3 ==
    \A i \in Done :
        /\ len(containers[i].EnvFrom) = 0 => Out(i).EnvFrom = NilSlice
        /\ len(containers[i].EnvFrom) > 0 => ~Out(i).EnvFrom.isNil

\* an empty non-nil list, and a list whose only entry is skipped
Wit_C3 ==
    /\ pc = "done"
    /\ Len(ret.elems) = 2
    /\ ~containers[2].EnvFrom.isNil
    /\ len(containers[2].EnvFrom) = 0
    /\ Out(2).EnvFrom.isNil
    /\ len(containers[1].EnvFrom) = 1
    /\ ~Out(1).EnvFrom.isNil
    /\ len(Out(1).EnvFrom) = 0

RawProbe(i, which) ==
    IF which = "Liveness" THEN containers[i].LivenessProbe
    ELSE containers[i].ReadinessProbe

OutProbe(i, which) ==
    IF which = "Liveness" THEN Deref(Out(i).Probe).Liveness
    ELSE Deref(Out(i).Probe).Readiness

Probes(n) ==
    {p \in (1..n) \X {"Liveness", "Readiness"} : RawProbe(p[1], p[2]) # Nil}

Malformed(p) ==
    /\ RawProbe(p[1], p[2])[1].Handler.Exec = Nil
    /\ RawProbe(p[1], p[2])[1].Handler.HTTPGet = Nil
    /\ RawProbe(p[1], p[2])[1].Handler.TCPSocket = Nil

\* C4: the action of a converted probe is picked exec > HTTP-get >
\* TCP-socket: EXEC with the exec payload when exec is set, HTTP with path,
\* port, host, scheme and headers of the HTTP-get when exec is unset and
\* HTTP-get is set, TCP with the TCP payload when only TCP-socket is set.
Thm_C4 ==
    \A p \in Probes(Len(ret.elems)) :
        LET h == RawProbe(p[1], p[2])[1].Handler
            o == OutProbe(p[1], p[2])
        IN  /\ o # Nil
            /\ h.Exec # Nil =>
                  /\ o[1].Handler.Type = "EXEC"
                  /\ o[1].Handler.Method = h.Exec
            /\ h.Exec = Nil /\ h.HTTPGet # Nil =>
                  /\ o[1].Handler.Type = "HTTP"
                  /\ o[1].Handler.Method # Nil
                  /\ o[1].Handler.Method[1].Path = h.HTTPGet[1].Path
                  /\ o[1].Handler.Method[1].Port = h.HTTPGet[1].Port
                  /\ o[1].Handler.Method[1].Host = h.HTTPGet[1].Host
                  /\ o[1].Handler.Method[1].Scheme = h.HTTPGet[1].Scheme
                  /\ o[1].Handler.Method[1].HTTPHeaders = h.HTTPGet[1].HTTPHeaders
            /\ h.Exec = Nil /\ h.HTTPGet = Nil /\ h.TCPSocket # Nil =>
                  /\ o[1].Handler.Type = "TCP"
                  /\ o[1].Handler.Method = h.TCPSocket

\* a liveness probe with all three variants set and a readiness probe with
\* HTTP-get and TCP-socket set
Wit_C4 ==
    /\ pc = "done"
    /\ \E i \in Done :
          /\ containers[i].LivenessProbe # Nil
          /\ containers[i].LivenessProbe[1].Handler.Exec # Nil
          /\ containers[i].LivenessProbe[1].Handler.HTTPGet # Nil
          /\ containers[i].LivenessProbe[1].Handler.TCPSocket # Nil
          /\ containers[i].ReadinessProbe # Nil
          /\ containers[i].ReadinessProbe[1].Handler.Exec = Nil
          /\ containers[i].ReadinessProbe[1].Handler.HTTPGet # Nil
          /\ containers[i].ReadinessProbe[1].Handler.HTTPGet[1].HTTPHeaders # <<>>
          /\ containers[i].ReadinessProbe[1].Handler.TCPSocket # Nil
          /\ OutProbe(i, "Liveness")[1].Handler.Type = "EXEC"
          /\ OutProbe(i, "Readiness")[1].Handler.Type = "HTTP"

\* C5: a probe with none of exec, HTTP-get, TCP-socket set does not stop the
\* conversion: the call returns one container per input container, the
\* probe is in the bundle with an empty tag, no payload and its timing and
\* threshold fields copied, and the log holds one emission for each such
\* probe converted so far and none for any other probe.
Thm_C5 ==
    /\ pc = "done" => Len(ret.elems) = Len(containers)
    /\ Len(logs) = Cardinality({p \in Probes(Len(ret.elems)) : Malformed(p)})
    /\ \A n \in 1..Len(logs) :
          logs[n].arg = [Exec |-> Nil, HTTPGet |-> Nil, TCPSocket |-> Nil]
    /\ \A p \in Probes(Len(ret.elems)) :
          Malformed(p) =>
              LET raw == RawProbe(p[1], p[2])[1]
                  o   == OutProbe(p[1], p[2])
              IN  /\ o # Nil
                  /\ o[1].Handler.Type = ""
                  /\ o[1].Handler.Method = Nil
                  /\ o[1].InitialDelaySeconds = raw.InitialDelaySeconds
                  /\ o[1].TimeoutSeconds = raw.TimeoutSeconds
                  /\ o[1].PeriodSeconds = raw.PeriodSeconds
                  /\ o[1].Threshold # Nil
                  /\ o[1].Threshold[1].SuccessThreshold = raw.SuccessThreshold
                  /\ o[1].Threshold[1].FailureThreshold = raw.FailureThreshold

\* the first container has a malformed liveness probe and a well-formed
\* readiness probe, a second container follows it
Wit_C5 ==
    /\ pc = "done"
    /\ Len(ret.elems) = 2
    /\ <<1, "Liveness">> \in Probes(2)
    /\ Malformed(<<1, "Liveness">>)
    /\ <<1, "Readiness">> \in Probes(2)
    /\ ~Malformed(<<1, "Readiness">>)
    /\ <<2, "Readiness">> \in Probes(2)
    /\ ~Malformed(<<2, "Readiness">>)
    /\ Len(logs) = 1
    /\ OutProbe(1, "Liveness")[1].TimeoutSeconds = 30
    /\ Out(2).Name = "b"

\* C6: the probe bundle of an output container is never nil; its liveness
\* is present iff the raw liveness probe is non-nil and its readiness iff
\* the raw readiness probe is non-nil, independently; the liveness and
\* readiness hints are true exactly when the bundle field is present.
Thm_C6 ==
    \A i \in Done :
        /\ Out(i).Probe # Nil
        /\ (OutProbe(i, "Liveness") # Nil) = (containers[i].LivenessProbe # Nil)
        /\ (OutProbe(i, "Readiness") # Nil) = (containers[i].ReadinessProbe # Nil)
        /\ Out(i).ConsoleLiveness # Nil
        /\ Out(i).ConsoleReadiness # Nil
        /\ Deref(Out(i).ConsoleLiveness) = (OutProbe(i, "Liveness") # Nil)
        /\ Deref(Out(i).ConsoleReadiness) = (OutProbe(i, "Readiness") # Nil)

\* readiness without liveness, then neither
Wit_C6 ==
    /\ pc = "done"
    /\ Len(ret.elems) = 2
    /\ containers[1].LivenessProbe = Nil
    /\ containers[1].ReadinessProbe # Nil
    /\ OutProbe(1, "Liveness") = Nil
    /\ OutProbe(1, "Readiness") # Nil
    /\ containers[2].LivenessProbe = Nil
    /\ containers[2].ReadinessProbe = Nil
    /\ Out(2).Probe = <<[Liveness |-> Nil, Readiness |-> Nil]>>

\* C7: the isLog hint of every output container is true iff some annotation
\* of the pod has exactly the key logging.caicloud.io/required-logfiles,
\* whatever its value and position, and is the same on every container.
Thm_C7 ==
    /\ \A i \in Done :
          /\ Out(i).ConsoleIsLog # Nil
          /\ Deref(Out(i).ConsoleIsLog) =
                 (\E a \in 1..Len(pod.Annotations) :
                     pod.Annotations[a].Key = "logging.caicloud.io/required-logfiles")
    /\ \A i, j \in Done : Out(i).ConsoleIsLog = Out(j).ConsoleIsLog

\* the key is on the second annotation, with an empty value
Wit_C7 ==
    /\ pc = "done"
    /\ Len(ret.elems) = 2
    /\ Len(pod.Annotations) = 2
    /\ pod.Annotations[1].Key = "logging.caicloud.io/required-logfile"
    /\ pod.Annotations[2].Key = "logging.caicloud.io/required-logfiles"
    /\ pod.Annotations[2].Value = ""
    /\ Deref(Out(1).ConsoleIsLog)
    /\ Deref(Out(2).ConsoleIsLog)

\* C8: the result has one container per input container, the i-th made
\* from the i-th input container with name, image, pull policy, tty,
\* command, args, working directory, security context, ports, env,
\* resources and lifecycle unchanged; the result is never nil once made,
\* also for an empty input.
Thm_C8 ==
    /\ pc # "start" => ~ret.isNil /\ Len(ret.elems) = idx
    /\ pc = "done" => Len(ret.elems) = Len(containers)
    /\ Len(ret.elems) <= Len(containers)
    /\ \A i \in Done :
          /\ ret.elems[i] # Nil
          /\ Out(i).Name = containers[i].Name
          /\ Out(i).Image = containers[i].Image
          /\ Out(i).ImagePullPolicy = containers[i].ImagePullPolicy
          /\ Out(i).TTY = containers[i].TTY
          /\ Out(i).Command = containers[i].Command
          /\ Out(i).Args = containers[i].Args
          /\ Out(i).WorkingDir = containers[i].WorkingDir
          /\ Out(i).SecurityContext = containers[i].SecurityContext
          /\ Out(i).Ports = containers[i].Ports
          /\ Out(i).Env = containers[i].Env
          /\ Out(i).Resources = containers[i].Resources
          /\ Out(i).Lifecycle = containers[i].Lifecycle

\* two different containers, in input order
Wit_C8 ==
    /\ pc = "done"
    /\ Len(containers) = 2
    /\ containers[1].Name = "db"
    /\ containers[2].Name = "web"
    /\ Out(1).Image = "mysql:8"
    /\ Out(2).Image = "nginx:1.25"

====
